---- MODULE Spec2Model ----
(***************************************************************************)
(* Model of cognitive_graph/tasks/unsupervised_node_classification.py:     *)
(*   UnsupervisedNodeClassification.train      (embedding alignment)       *)
(*   UnsupervisedNodeClassification._evaluate  (split/evaluation driver)   *)
(*   TopKRanker.predict                        (top-k label assignment)    *)
(*                                                                         *)
(* Matrices are functions from the 0-based row index to a row; a row is a  *)
(* tuple of its column values.  Python floats are IEEE-754 doubles and are *)
(* modelled as a 53-bit mantissa (bit sequence, least significant first)   *)
(* and a binary exponent.                                                  *)
(***************************************************************************)
EXTENDS Integers, Sequences, FiniteSets, TLC

VARIABLES
    pc,               \* position of the running method
    num_nodes,        \* self.num_nodes
    num_shuffle,      \* parameter num_shuffle of _evaluate
    features_matrix,  \* parameter features_matrix of _evaluate
    label_matrix,     \* parameter label_matrix of _evaluate
    shuffles,         \* list of (X, y) pairs
    fi,               \* position of the outer loop in training_percents
    si,               \* position of the inner loop in shuffles
    training_size,    \* local training_size
    X_train, y_train, X_test, y_test,
    clf,              \* identity of the classifier object bound to clf
    nclf,             \* number of TopKRanker objects constructed so far
    top_k_list,       \* local top_k_list
    all_results,      \* defaultdict(list): train_percent -> list of scores
    cycles,           \* history: one record per completed fit/predict cycle
    ret,              \* value returned by _evaluate (NoReturn until then)
    edge_index,       \* self.data.edge_index.t().tolist(): list of (u, v)
    G_nodes,          \* G.nodes(): the nodes of G in insertion order
    embeddings,       \* the list returned by self.model.train(G)
    vid,              \* position of the alignment loop in G.nodes()
    probs,            \* predict: per test row, the probability of every class
    all_labels,       \* predict: the indicator matrix being filled
    row               \* predict: position of the loop over top_k_list

vars == <<pc, num_nodes, num_shuffle, features_matrix, label_matrix, shuffles,
          fi, si, training_size, X_train, y_train, X_test, y_test, clf, nclf,
          top_k_list, all_results, cycles, ret, edge_index, G_nodes, embeddings,
          vid, probs, all_labels, row>>

trainVars == <<edge_index, G_nodes, embeddings, vid>>
predictVars == <<probs, all_labels, row>>

(***************************************************************************)
(* Bounds of the model.                                                    *)
(***************************************************************************)
MaxNodes == 1
MaxShuffle == 2
MaxPermNodes == 2
MaxSplitNodes == 90
MaxTrainNodes == 3
MaxEdges == 2
MaxTestRows == 1
MaxProb == 2
num_classes == 3
hidden_size == 1

\* line 86: the training fractions, in tenths (0.1, 0.3, 0.5, 0.7, 0.9)
training_percents == <<1, 3, 5, 7, 9>>

NoReturn == "NoReturn"
NoClf == 0

(***************************************************************************)
(* IEEE-754 double arithmetic for line 92: int(train_percent * num_nodes). *)
(***************************************************************************)
MantissaBits == 53

\* the four bits of one hexadecimal digit, least significant first
HexDigitBits(d) == <<d % 2, (d \div 2) % 2, (d \div 4) % 2, (d \div 8) % 2>>

RECURSIVE HexBits(_)
\* bits (least significant first) of a number given by its hex digits (most significant first)
HexBits(h) == IF h = <<>> THEN <<>>
              ELSE HexBits(Tail(h)) \o HexDigitBits(Head(h))

\* The double nearest to each decimal literal of line 86: value = mant * 2^(-scale)
DoubleOf(tenths) ==
    CASE tenths = 1 -> [mant |-> HexBits(<<1,9,9,9,9,9,9,9,9,9,9,9,9,10>>), scale |-> 56]
      [] tenths = 3 -> [mant |-> HexBits(<<1,3,3,3,3,3,3,3,3,3,3,3,3,3>>), scale |-> 54]
      [] tenths = 5 -> [mant |-> HexBits(<<1,0,0,0,0,0,0,0,0,0,0,0,0,0>>), scale |-> 53]
      [] tenths = 7 -> [mant |-> HexBits(<<1,6,6,6,6,6,6,6,6,6,6,6,6,6>>), scale |-> 53]
      [] tenths = 9 -> [mant |-> HexBits(<<1,12,12,12,12,12,12,12,12,12,12,12,12,13>>), scale |-> 53]

RECURSIVE CarryBits(_)
CarryBits(c) == IF c = 0 THEN <<>> ELSE <<c % 2>> \o CarryBits(c \div 2)

RECURSIVE MulBits(_, _, _)
\* exact product of a bit sequence and a small natural n
MulBits(b, n, carry) ==
    IF b = <<>> THEN CarryBits(carry)
    ELSE LET t == Head(b) * n + carry
         IN  <<t % 2>> \o MulBits(Tail(b), n, t \div 2)

RECURSIVE BitLen(_)
\* position of the most significant 1 bit (0 for zero)
BitLen(b) == IF b = <<>> THEN 0
             ELSE IF b[Len(b)] = 1 THEN Len(b)
             ELSE BitLen(SubSeq(b, 1, Len(b) - 1))

RECURSIVE IncBits(_)
IncBits(b) == IF b = <<>> THEN <<1>>
              ELSE IF Head(b) = 0 THEN <<1>> \o Tail(b)
              ELSE <<0>> \o IncBits(Tail(b))

RECURSIVE BitsToNat(_)
BitsToNat(b) == IF b = <<>> THEN 0 ELSE Head(b) + 2 * BitsToNat(Tail(b))

\* round an exact product to MantissaBits significant bits, ties to even;
\* the result is q * 2^shift
RoundNearestEven(p) ==
    LET L == BitLen(p)
        s == L - MantissaBits
    IN  IF s <= 0 THEN [q |-> SubSeq(p, 1, L), shift |-> 0]
        ELSE LET q0     == SubSeq(p, s + 1, L)
                 guard  == p[s]
                 sticky == \E j \in 1..(s - 1) : p[j] = 1
                 up     == guard = 1 /\ (sticky \/ q0[1] = 1)
             IN  [q |-> IF up THEN IncBits(q0) ELSE q0, shift |-> s]

\* train_percent * self.num_nodes as a double: value = q * 2^(shift - scale)
FloatMul(tenths, n) ==
    LET d == DoubleOf(tenths)
        r == RoundNearestEven(MulBits(d.mant, n, 0))
    IN  [q |-> r.q, exp |-> r.shift - d.scale]

\* int(x) of a non-negative double below 2^31: truncation toward zero
IntOfFloat(x) ==
    IF -x.exp >= Len(x.q) THEN 0
    ELSE BitsToNat(SubSeq(x.q, 1 - x.exp, Len(x.q)))

\* a training size rounded to the nearest integer instead of truncated
TrainingSize_rounded(tenths, n) == (tenths * n + 5) \div 10

\* line 92
TrainingSize(tenths, n) == IntOfFloat(FloatMul(tenths, n))

(***************************************************************************)
(* Matrices and the joint shuffle of lines 78-81.                          *)
(***************************************************************************)
Rows(n) == 0..(n - 1)

Range(f) == {f[x] : x \in DOMAIN f}

NRows(M) == Cardinality(DOMAIN M)

Classes == 0..(num_classes - 1)

\* label rows: one 0/1 entry per class, column c at tuple position c + 1
LabelRows == [1..num_classes -> {0, 1}]

OneHot(c) == [j \in 1..num_classes |-> IF j = c + 1 THEN 1 ELSE 0]

FeatRows == [1..hidden_size -> {1, 2}]

\* all permutations of the row indices 0..n-1
Perms(n) == {p \in [Rows(n) -> Rows(n)] : \A i, j \in Rows(n) : p[i] = p[j] => i = j}

\* the permutations the random generator is let to draw
PermChoices(n) ==
    IF n <= MaxPermNodes THEN Perms(n)
    ELSE {[i \in Rows(n) |-> i], [i \in Rows(n) |-> n - 1 - i]}

\* indexing an array by an index array: M[indices]
Take(M, indices) == [i \in DOMAIN indices |-> M[indices[i]]]

\* a shuffle that reorders the features and leaves the labels in place
skshuffle_labels_kept(fm, lm, indices) == <<Take(fm, indices), lm>>

\* sklearn.utils.shuffle(features_matrix, label_matrix): one index array is
\* shuffled and every array is indexed by it
skshuffle(fm, lm, indices) == <<Take(fm, indices), Take(lm, indices)>>

\* M[lo:hi, :] with Python's clipping of the bounds (0 <= lo, hi)
PySlice(M, lo, hi) ==
    LET n == NRows(M)
        a == IF lo > n THEN n ELSE lo
        b == IF hi > n THEN n ELSE hi
    IN  [i \in Rows(IF b > a THEN b - a ELSE 0) |-> M[a + i]]

RECURSIVE SumSeq(_)
SumSeq(s) == IF s = <<>> THEN 0 ELSE Head(s) + SumSeq(Tail(s))

\* line 104: list(map(int, y_test.sum(axis=1).T.tolist()[0]))
RowSums(y) == [i \in DOMAIN y |-> SumSeq(y[i])]

(***************************************************************************)
(* The result dictionary of lines 84, 107 and 110-116.                     *)
(***************************************************************************)
\* the scores f1_score may return, in percent
Scores == {0, 100}

\* all_results[k].append(v) on a defaultdict(list)
DictAppend(d, k, v) ==
    IF k \in DOMAIN d THEN [d EXCEPT ![k] = Append(@, v)]
    ELSE [x \in DOMAIN d \cup {k} |-> IF x = k THEN <<v>> ELSE d[x]]

Min(S) == CHOOSE x \in S : \A y \in S : x <= y

RECURSIVE Sorted(_)
\* sorted(keys)
Sorted(S) == IF S = {} THEN <<>> ELSE <<Min(S)>> \o Sorted(S \ {Min(S)})

\* str() of the float train_percent
FloatStr(tenths) ==
    CASE tenths = 1 -> "0.1" [] tenths = 3 -> "0.3" [] tenths = 5 -> "0.5"
      [] tenths = 7 -> "0.7" [] tenths = 9 -> "0.9"

\* f"Micro-F1 {train_percent}"
KeyOf(tenths) == "Micro-F1 " \o FloatStr(tenths)

\* an aggregate that sums the scores and does not divide
Mean_sum(l) == [num |-> SumSeq(l), den |-> 1]

\* sum(l) / len(l) as the exact quotient num / den
Mean(l) == [num |-> SumSeq(l), den |-> Len(l)]

\* lines 110-116: the (key, value) pairs in the order the dict receives them
ResultDict(d) ==
    LET ks == Sorted(DOMAIN d)
    IN  [j \in 1..Len(ks) |-> <<KeyOf(ks[j]), Mean(d[ks[j]])>>]

(***************************************************************************)
(* _evaluate, lines 74-116.                                                *)
(***************************************************************************)
evalLocals == <<training_size, X_train, y_train, X_test, y_test, clf, top_k_list>>
evalParams == <<num_nodes, num_shuffle, features_matrix, label_matrix>>

\* lines 80-81: one iteration of the loop that builds shuffles
Shuffle ==
    /\ pc = "shuffle"
    /\ Len(shuffles) < num_shuffle
    /\ \E indices \in PermChoices(NRows(features_matrix)) :
          shuffles' = Append(shuffles, skshuffle(features_matrix, label_matrix, indices))
    /\ UNCHANGED <<pc, fi, si, nclf, all_results, cycles, ret, evalLocals, evalParams,
                   trainVars, predictVars>>

\* a result dictionary that starts with an empty list for every fraction
BeginScoring_prefilled ==
    /\ pc = "shuffle"
    /\ Len(shuffles) = num_shuffle
    /\ all_results' = [k \in Range(training_percents) |-> <<>>]
    /\ fi' = 1
    /\ si' = 1
    /\ pc' = "loop"
    /\ UNCHANGED <<shuffles, nclf, cycles, ret, evalLocals, evalParams, trainVars, predictVars>>

\* lines 84-88: the shuffle loop is exhausted, the scoring loops start
BeginScoring ==
    /\ pc = "shuffle"
    /\ Len(shuffles) = num_shuffle
    /\ all_results' = <<>>
    /\ fi' = 1
    /\ si' = 1
    /\ pc' = "loop"
    /\ UNCHANGED <<shuffles, nclf, cycles, ret, evalLocals, evalParams,
                   trainVars, predictVars>>

\* lines 89-98: the inner loop takes the next shuffle and splits it
Split ==
    /\ pc = "loop"
    /\ fi <= Len(training_percents)
    /\ si <= Len(shuffles)
    /\ training_size' = TrainingSize(training_percents[fi], num_nodes)
    /\ LET X == shuffles[si][1]
           y == shuffles[si][2]
       IN  /\ X_train' = PySlice(X, 0, training_size')
           /\ y_train' = PySlice(y, 0, training_size')
           /\ X_test' = PySlice(X, training_size', NRows(X))
           /\ y_test' = PySlice(y, training_size', NRows(y))
    /\ pc' = "fit"
    /\ UNCHANGED <<shuffles, fi, si, clf, nclf, top_k_list, all_results, cycles, ret, evalParams,
                   trainVars, predictVars>>

\* lines 88-89: the inner loop is exhausted, the outer loop takes the next fraction
NextPercent ==
    /\ pc = "loop"
    /\ fi <= Len(training_percents)
    /\ si > Len(shuffles)
    /\ fi' = fi + 1
    /\ si' = 1
    /\ UNCHANGED <<pc, shuffles, nclf, all_results, cycles, ret, evalLocals, evalParams,
                   trainVars, predictVars>>

\* a fit on one classifier constructed before the loops and used by every cycle
Fit_reused ==
    /\ pc = "fit"
    /\ nclf' = 1
    /\ clf' = 1
    /\ pc' = "predict"
    /\ UNCHANGED <<shuffles, fi, si, training_size, X_train, y_train, X_test, y_test,
                   top_k_list, all_results, cycles, ret, evalParams, trainVars, predictVars>>

\* lines 100-101: a new TopKRanker is constructed and fit returns
Fit ==
    /\ pc = "fit"
    /\ nclf' = nclf + 1
    /\ clf' = nclf + 1
    /\ pc' = "predict"
    /\ UNCHANGED <<shuffles, fi, si, training_size, X_train, y_train, X_test, y_test,
                   top_k_list, all_results, cycles, ret, evalParams,
                   trainVars, predictVars>>

\* a fit failure that is caught and answered with the scores recorded so far
FitRaises_salvage ==
    /\ pc = "fit"
    /\ nclf' = nclf + 1
    /\ clf' = nclf + 1
    /\ pc' = "done"
    /\ ret' = [j \in 1..Len(Sorted(DOMAIN all_results)) |->
                  <<Sorted(DOMAIN all_results)[j], all_results[Sorted(DOMAIN all_results)[j]]>>]
    /\ UNCHANGED <<shuffles, fi, si, training_size, X_train, y_train, X_test, y_test,
                   top_k_list, all_results, cycles, evalParams, trainVars, predictVars>>

\* lines 100-101: a new TopKRanker is constructed and fit raises
FitRaises ==
    /\ pc = "fit"
    /\ nclf' = nclf + 1
    /\ clf' = nclf + 1
    /\ pc' = "raised"
    /\ UNCHANGED <<shuffles, fi, si, training_size, X_train, y_train, X_test, y_test,
                   top_k_list, all_results, cycles, ret, evalParams,
                   trainVars, predictVars>>

\* lines 104-105: the oracle counts are taken from y_test and predict returns
Predict ==
    /\ pc = "predict"
    /\ top_k_list' = RowSums(y_test)
    /\ pc' = IF NRows(X_test) = NRows(RowSums(y_test)) THEN "score" ELSE "raised"
    /\ UNCHANGED <<shuffles, fi, si, training_size, X_train, y_train, X_test, y_test,
                   clf, nclf, all_results, cycles, ret, evalParams,
                   trainVars, predictVars>>

\* lines 104-105: the oracle counts are taken from y_test and predict raises
PredictRaises ==
    /\ pc = "predict"
    /\ top_k_list' = RowSums(y_test)
    /\ pc' = "raised"
    /\ UNCHANGED <<shuffles, fi, si, training_size, X_train, y_train, X_test, y_test,
                   clf, nclf, all_results, cycles, ret, evalParams,
                   trainVars, predictVars>>

\* lines 106-107: the score of the cycle is appended under its fraction
Score ==
    /\ pc = "score"
    /\ \E result \in Scores :
          /\ all_results' = DictAppend(all_results, training_percents[fi], result)
          /\ cycles' = Append(cycles, [train_percent |-> training_percents[fi],
                                       shuf |-> si, clf |-> clf, result |-> result])
    /\ si' = si + 1
    /\ pc' = "loop"
    /\ UNCHANGED <<shuffles, fi, nclf, ret, evalLocals, evalParams,
                   trainVars, predictVars>>

\* lines 110-116: both loops are exhausted, the averages are returned
Return ==
    /\ pc = "loop"
    /\ fi > Len(training_percents)
    /\ IF \E k \in DOMAIN all_results : Len(all_results[k]) = 0
       THEN pc' = "raised" /\ ret' = ret
       ELSE pc' = "done" /\ ret' = ResultDict(all_results)
    /\ UNCHANGED <<shuffles, fi, si, nclf, all_results, cycles, evalLocals, evalParams,
                   trainVars, predictVars>>

Next == \/ Shuffle \/ BeginScoring \/ Split \/ NextPercent \/ Fit \/ FitRaises
        \/ Predict \/ PredictRaises \/ Score \/ Return

\* the state at the entry of _evaluate, its three parameters given
EvaluateEntry(n, fm, lm, R) ==
    /\ pc = "shuffle"
    /\ num_nodes = n
    /\ num_shuffle = R
    /\ features_matrix = fm
    /\ label_matrix = lm
    /\ shuffles = <<>>
    /\ fi = 0
    /\ si = 0
    /\ training_size = 0
    /\ X_train = <<>> /\ y_train = <<>> /\ X_test = <<>> /\ y_test = <<>>
    /\ clf = NoClf
    /\ nclf = 0
    /\ top_k_list = <<>>
    /\ all_results = <<>>
    /\ cycles = <<>>
    /\ ret = NoReturn
    /\ edge_index = <<>> /\ G_nodes = <<>> /\ embeddings = <<>> /\ vid = 0
    /\ probs = <<>> /\ all_labels = <<>> /\ row = 0

\* the matrices of n nodes with pairwise different feature rows
NodeFeatures(n) == [i \in Rows(n) |-> [c \in 1..hidden_size |-> i + 1]]
NodeLabels(n) == [i \in Rows(n) |-> OneHot(i % num_classes)]

\* the matrices of n nodes that all have the same features and the same label
SameFeatures(n) == [i \in Rows(n) |-> [c \in 1..hidden_size |-> 1]]
SameLabels(n) == [i \in Rows(n) |-> OneHot(0)]

Init ==
    \E n \in 0..MaxNodes, R \in 0..MaxShuffle :
        EvaluateEntry(n, SameFeatures(n), SameLabels(n), R)

Spec == Init /\ [][Next]_vars

\* label rows with no positive label or exactly the first one
SplitLabelRows == {[j \in 1..num_classes |-> 0], OneHot(0)}

InitSplit ==
    \E n \in 0..MaxSplitNodes, R \in {0, 1} :
        IF n <= MaxPermNodes
        THEN \E fm \in [Rows(n) -> FeatRows], lm \in [Rows(n) -> SplitLabelRows] :
                EvaluateEntry(n, fm, lm, R)
        ELSE R = 1 /\ EvaluateEntry(n, NodeFeatures(n), NodeLabels(n), R)

SpecSplit == InitSplit /\ [][Next]_vars

(***************************************************************************)
(* train, lines 59-72.                                                     *)
(***************************************************************************)
RECURSIVE AddEdgesFrom(_, _)
\* G.add_edges_from(edges) on the node list of G: each endpoint not yet in G
\* is inserted, u before v
AddEdgesFrom(nodes, edges) ==
    IF edges = <<>> THEN nodes
    ELSE LET u  == Head(edges)[1]
             v  == Head(edges)[2]
             n1 == IF u \in Range(nodes) THEN nodes ELSE Append(nodes, u)
             n2 == IF v \in Range(n1) THEN n1 ELSE Append(n1, v)
         IN  AddEdgesFrom(n2, Tail(edges))

\* the vectors the embedding model may return for one node
EmbRows == [1..hidden_size -> {1, 2}]

\* np.zeros((n, hidden_size))
Zeros(n, width) == [i \in Rows(n) |-> [c \in 1..width |-> 0]]

evalState == <<shuffles, fi, si, nclf, all_results, cycles, ret, evalLocals>>

\* lines 60-61: the graph is built from the edge list
BuildGraph ==
    /\ pc = "train"
    /\ G_nodes' = AddEdgesFrom(<<>>, edge_index)
    /\ pc' = "model_train"
    /\ UNCHANGED <<edge_index, embeddings, vid, evalParams, evalState, predictVars>>

\* line 62: the model returns one vector per node of G, in the order of G.nodes()
ModelTrain ==
    /\ pc = "model_train"
    /\ \E emb \in [Rows(Len(G_nodes)) -> EmbRows] : embeddings' = emb
    /\ pc' = "zeros"
    /\ UNCHANGED <<edge_index, G_nodes, vid, evalParams, evalState, predictVars>>

\* line 65
NewFeatures ==
    /\ pc = "zeros"
    /\ features_matrix' = Zeros(num_nodes, hidden_size)
    /\ vid' = 0
    /\ pc' = "align"
    /\ UNCHANGED <<edge_index, G_nodes, embeddings, num_nodes, num_shuffle, label_matrix,
                   evalState, predictVars>>

\* an alignment loop that writes row vid instead of row node
AlignRow_unmapped ==
    /\ pc = "align"
    /\ vid < Len(G_nodes)
    /\ features_matrix' = [features_matrix EXCEPT ![vid] = embeddings[vid]]
    /\ vid' = vid + 1
    /\ UNCHANGED <<pc, edge_index, G_nodes, embeddings, num_nodes, num_shuffle, label_matrix,
                   evalState, predictVars>>

\* lines 66-67: one iteration of the alignment loop
AlignRow ==
    /\ pc = "align"
    /\ vid < Len(G_nodes)
    /\ LET node == G_nodes[vid + 1]
       IN  features_matrix' = [features_matrix EXCEPT ![node] = embeddings[vid]]
    /\ vid' = vid + 1
    /\ UNCHANGED <<pc, edge_index, G_nodes, embeddings, num_nodes, num_shuffle, label_matrix,
                   evalState, predictVars>>

\* lines 70-72: the loop is exhausted and _evaluate is entered
CallEvaluate ==
    /\ pc = "align"
    /\ vid = Len(G_nodes)
    /\ pc' = "shuffle"
    /\ UNCHANGED <<trainVars, evalParams, evalState, predictVars>>

NextTrain == BuildGraph \/ ModelTrain \/ NewFeatures \/ AlignRow \/ CallEvaluate

RECURSIVE SeqsUpTo(_, _)
\* the sequences over S of length at most n
SeqsUpTo(S, n) ==
    IF n = 0 THEN {<<>>}
    ELSE LET shorter == SeqsUpTo(S, n - 1)
         IN  shorter \cup {Append(q, x) : q \in shorter, x \in S}

\* the state at the entry of train
InitTrain ==
    \E n \in 0..MaxTrainNodes :
      \E edges \in SeqsUpTo(Rows(n) \X Rows(n), MaxEdges) :
        /\ pc = "train"
        /\ num_nodes = n
        /\ num_shuffle = 1
        /\ features_matrix = <<>>
        /\ label_matrix = NodeLabels(n)
        /\ shuffles = <<>> /\ fi = 0 /\ si = 0 /\ training_size = 0
        /\ X_train = <<>> /\ y_train = <<>> /\ X_test = <<>> /\ y_test = <<>>
        /\ clf = NoClf /\ nclf = 0 /\ top_k_list = <<>>
        /\ all_results = <<>> /\ cycles = <<>> /\ ret = NoReturn
        /\ edge_index = edges
        /\ G_nodes = <<>> /\ embeddings = <<>> /\ vid = 0
        /\ probs = <<>> /\ all_labels = <<>> /\ row = 0

SpecTrain == InitTrain /\ [][NextTrain]_vars

(***************************************************************************)
(* TopKRanker.predict, lines 119-130, with its call at lines 104-105.      *)
(***************************************************************************)
ProbVals == 1..MaxProb

RECURSIVE SortOrders(_, _)
\* the ascending orders of the classes in S by probability: the next class
\* is any class of S of the least probability
SortOrders(p, S) ==
    IF S = {} THEN {<<>>}
    ELSE LET least == {c \in S : \A d \in S : p[c] <= p[d]}
         IN  UNION {{<<c>> \o o : o \in SortOrders(p, S \ {c})} : c \in least}

\* the index orders numpy.argsort may return for one row of probabilities:
\* ascending by value, the order of equal values left to the sort
ArgSorts(p) == SortOrders(p, Classes)

\* s[i:] for a Python index i, negative indices counted from the end
PySliceFrom(s, i) ==
    LET L     == Len(s)
        start == IF i < 0 THEN (IF L + i < 0 THEN 0 ELSE L + i)
                 ELSE (IF i > L THEN L ELSE i)
    IN  SubSeq(s, start + 1, L)

\* self.classes_ of a classifier fitted on an indicator matrix: the column indices
classes_ == [c \in Classes |-> c]

\* a ranking that takes the k classes at the low end of the order
TopLabels_lowest(order, k) == [j \in 1..k |-> classes_[order[j]]]

\* line 127: self.classes_[probs_.argsort()[-k:]].tolist()
TopLabels(order, k) ==
    LET top == PySliceFrom(order, -k)
    IN  [j \in 1..Len(top) |-> classes_[top[j]]]

\* lines 128-129: all_labels[i, label] = 1 for every label
MarkRow(r, labels) == [j \in 1..num_classes |-> IF (j - 1) \in Range(labels) THEN 1 ELSE r[j]]

\* line 104: the oracle counts of the test rows
OracleCounts ==
    /\ pc = "top_k"
    /\ top_k_list' = RowSums(y_test)
    /\ pc' = "predict_proba"
    /\ UNCHANGED <<shuffles, fi, si, nclf, all_results, cycles, ret, training_size,
                   X_train, y_train, X_test, y_test, clf, evalParams, trainVars, predictVars>>

\* lines 121-123: the row count is asserted, every class of every row gets a
\* probability, the indicator matrix is created empty
PredictProba ==
    /\ pc = "predict_proba"
    /\ IF NRows(X_test) = NRows(top_k_list)
       THEN /\ \E pr \in [DOMAIN X_test -> [Classes -> ProbVals]] : probs' = pr
            /\ all_labels' = Zeros(NRows(X_test), num_classes)
            /\ row' = 0
            /\ pc' = "rank"
       ELSE pc' = "raised" /\ UNCHANGED predictVars
    /\ UNCHANGED <<shuffles, fi, si, nclf, all_results, cycles, ret, evalLocals,
                   evalParams, trainVars>>

\* lines 125-129: one iteration of the loop over top_k_list
RankRow ==
    /\ pc = "rank"
    /\ row < NRows(top_k_list)
    /\ \E order \in ArgSorts(probs[row]) :
          all_labels' = [all_labels EXCEPT ![row] = MarkRow(@, TopLabels(order, top_k_list[row]))]
    /\ row' = row + 1
    /\ UNCHANGED <<pc, probs, shuffles, fi, si, nclf, all_results, cycles, ret, evalLocals,
                   evalParams, trainVars>>

\* line 130
PredictReturn ==
    /\ pc = "rank"
    /\ row = NRows(top_k_list)
    /\ pc' = "predicted"
    /\ UNCHANGED <<shuffles, fi, si, nclf, all_results, cycles, ret, evalLocals,
                   evalParams, trainVars, predictVars>>

NextPredict == OracleCounts \/ PredictProba \/ RankRow \/ PredictReturn

\* one label row for every number of positive labels
CountLabelRows == {[j \in 1..num_classes |-> IF j <= k THEN 1 ELSE 0] : k \in 0..num_classes}

\* the state at line 104 of a cycle whose test split has n rows
InitPredict ==
    \E n \in 0..MaxTestRows :
      \E yt \in [Rows(n) -> CountLabelRows] :
        /\ pc = "top_k"
        /\ num_nodes = n
        /\ num_shuffle = 1
        /\ features_matrix = NodeFeatures(n)
        /\ label_matrix = yt
        /\ shuffles = <<<<NodeFeatures(n), yt>>>>
        /\ fi = 1 /\ si = 1 /\ training_size = 0
        /\ X_train = <<>> /\ y_train = <<>>
        /\ X_test = NodeFeatures(n) /\ y_test = yt
        /\ clf = 1 /\ nclf = 1 /\ top_k_list = <<>>
        /\ all_results = <<>> /\ cycles = <<>> /\ ret = NoReturn
        /\ edge_index = <<>> /\ G_nodes = <<>> /\ embeddings = <<>> /\ vid = 0
        /\ probs = <<>> /\ all_labels = <<>> /\ row = 0

SpecPredict == InitPredict /\ [][NextPredict]_vars

(***************************************************************************)
(* Properties.                                                             *)
(***************************************************************************)
\* the rows of the test split that predict has already ranked
RankedRows == IF pc \in {"rank", "predicted"} THEN {i \in DOMAIN all_labels : i < row} ELSE {}

\* the classes marked positive in output row i
Marked(i) == {c \in Classes : all_labels[i][c + 1] = 1}

\* C1: in every output row that predict has filled, the number of positive
\* labels equals the oracle count k = top_k_list[i] of that row, for every k
\* in 0..num_classes, k = 0 included: never more and never fewer.
C1_ExactlyKPositives ==
    \A i \in RankedRows :
        /\ top_k_list[i] \in 0..num_classes
        /\ Cardinality(Marked(i)) = top_k_list[i]

\* floor(f * n) for the fraction f = tenths / 10
FloorOfFraction(tenths, n) == (tenths * n) \div 10

\* C2: after every split, training_size is floor(f * num_nodes), the train
\* split is exactly rows [0, training_size) and the test split exactly rows
\* [training_size, num_nodes) of the permuted matrices, and the two sizes
\* add up to num_nodes.
C2_SplitPartition ==
    pc = "fit" =>
        LET X == shuffles[si][1]
            y == shuffles[si][2]
        IN  /\ training_size = FloorOfFraction(training_percents[fi], num_nodes)
            /\ NRows(X_train) = training_size
            /\ NRows(y_train) = training_size
            /\ NRows(X_train) + NRows(X_test) = num_nodes
            /\ NRows(y_train) + NRows(y_test) = num_nodes
            /\ \A i \in Rows(num_nodes) :
                  IF i < training_size
                  THEN X_train[i] = X[i] /\ y_train[i] = y[i]
                  ELSE X_test[i - training_size] = X[i] /\ y_test[i - training_size] = y[i]

\* the number of rows at which the pair of matrices (A, B) holds the pair (a, b)
PairCount(A, B, a, b) == Cardinality({i \in DOMAIN A : A[i] = a /\ B[i] = b})

\* the pair of matrices (X, y) holds the rows of (features_matrix,
\* label_matrix) in the same pairs, and one permutation undoes both
KeepsPairs(X, y) ==
    /\ DOMAIN X = DOMAIN features_matrix
    /\ DOMAIN y = DOMAIN label_matrix
    /\ \A i \in DOMAIN features_matrix :
          /\ PairCount(X, y, features_matrix[i], label_matrix[i])
               = PairCount(features_matrix, label_matrix, features_matrix[i], label_matrix[i])
          /\ PairCount(X, y, X[i], y[i])
               = PairCount(features_matrix, label_matrix, X[i], y[i])
    /\ num_nodes <= MaxPermNodes =>
          \E undo \in Perms(num_nodes) :
              Take(X, undo) = features_matrix /\ Take(y, undo) = label_matrix

\* C3: every shuffle that is built holds the same multiset of (feature-row,
\* label-row) pairs as the matrices it was made from, one permutation of
\* the rows, applied to both of its matrices, gives the original matrices
\* back, and a shuffle once built is never changed.
C3_ShuffleKeepsPairs ==
    [][/\ Len(shuffles') > Len(shuffles) =>
             /\ Len(shuffles') = Len(shuffles) + 1
             /\ KeepsPairs(shuffles'[Len(shuffles')][1], shuffles'[Len(shuffles')][2])
       /\ \A s \in 1..Len(shuffles) : Len(shuffles') >= s /\ shuffles'[s] = shuffles[s]]_vars

C3_Witness ==
    /\ Len(shuffles) >= 1
    /\ num_nodes >= 2
    /\ features_matrix[0] = features_matrix[1]
    /\ label_matrix[0] # label_matrix[1]
    /\ shuffles[1][2] # label_matrix
    /\ shuffles[1][1] = features_matrix

\* the endpoints of the edge list in the order they are listed
EndpointAt(j) == edge_index[(j + 1) \div 2][IF j % 2 = 1 THEN 1 ELSE 2]
EndpointCount == 2 * Len(edge_index)
IsEndpoint(i) == \E j \in 1..EndpointCount : EndpointAt(j) = i
FirstOccurrence(i) == CHOOSE j \in 1..EndpointCount :
                          EndpointAt(j) = i /\ \A h \in 1..(j - 1) : EndpointAt(h) # i
\* the 0-based position of node i in the de-duplicated first-occurrence order
VisitPosition(i) == Cardinality({EndpointAt(h) : h \in 1..(FirstOccurrence(i) - 1)})

\* C4: after the alignment loop the feature matrix has num_nodes rows; the
\* row of a node that is an endpoint of some edge is the embedding at the
\* node's position in the de-duplicated first-occurrence order of the edge
\* list, and the row of a node with no incident edge is all-zero.
C4_RowsAligned ==
    (pc = "shuffle" /\ Len(shuffles) = 0) =>
        /\ DOMAIN features_matrix = Rows(num_nodes)
        /\ \A i \in Rows(num_nodes) :
              IF IsEndpoint(i)
              THEN features_matrix[i] = embeddings[VisitPosition(i)]
              ELSE \A c \in 1..hidden_size : features_matrix[i][c] = 0

C4_Witness ==
    /\ pc = "shuffle"
    /\ Len(edge_index) = 2
    /\ edge_index[1] = edge_index[2]
    /\ edge_index[1] = <<2, 0>>
    /\ embeddings[0] # embeddings[1]
    /\ features_matrix[2] = embeddings[0]
    /\ features_matrix[0] = embeddings[1]
    /\ features_matrix[1] = [c \in 1..hidden_size |-> 0]

\* the scores recorded by the cycles of one fraction, in the order recorded
RECURSIVE ScoresOf(_, _)
ScoresOf(log, tenths) ==
    IF log = <<>> THEN <<>>
    ELSE (IF Head(log).train_percent = tenths THEN <<Head(log).result>> ELSE <<>>)
         \o ScoresOf(Tail(log), tenths)

ReportKeys == <<"Micro-F1 0.1", "Micro-F1 0.3", "Micro-F1 0.5", "Micro-F1 0.7", "Micro-F1 0.9">>

\* C5: a run with num_shuffle >= 1 that returns, returns exactly five
\* entries, keyed "Micro-F1 <fraction>" in ascending fraction order, each
\* valued with the sum of the num_shuffle scores of that fraction's cycles
\* divided by num_shuffle.
C5_MeanPerFraction ==
    (pc = "done" /\ num_shuffle >= 1) =>
        /\ Len(ret) = 5
        /\ \A j \in 1..5 :
              /\ ret[j][1] = ReportKeys[j]
              /\ Len(ScoresOf(cycles, training_percents[j])) = num_shuffle
              /\ ret[j][2].den = num_shuffle
              /\ ret[j][2].num = SumSeq(ScoresOf(cycles, training_percents[j]))

C5_Witness ==
    /\ pc = "done"
    /\ num_shuffle = 2
    /\ ret[1][2] = [num |-> 100, den |-> 2]
    /\ ret[4][2] = [num |-> 200, den |-> 2]
    /\ ret[5][2] = [num |-> 0, den |-> 2]

\* C6: a failure of fit or predict ends the run: from then on no classifier
\* is constructed, no cycle is recorded and nothing is returned; a mapping
\* is returned only when every cycle that was started has completed.
C6_FailureAborts ==
    [][/\ pc = "raised" => (pc' = "raised" /\ cycles' = cycles /\ nclf' = nclf
                            /\ all_results' = all_results /\ ret' = NoReturn)
       /\ pc' = "raised" => ret' = NoReturn
       /\ (pc \in {"fit", "predict"} /\ pc' = "raised") => (cycles' = cycles /\ fi' = fi /\ si' = si)
       /\ pc' = "done" => nclf' = Len(cycles')]_vars

C6_Witness ==
    /\ pc = "raised"
    /\ Len(cycles) >= 3
    /\ all_results # <<>>
    /\ ret = NoReturn

\* C8: the permutations are all generated before the first cycle and never
\* changed afterwards; the cycles run one at a time in the order fraction
\* 0.1, 0.3, 0.5, 0.7, 0.9 (outer) by permutation 1..R (inner), one per
\* pair; no two cycles use the same classifier, each classifier is the one
\* constructed for its cycle; the run returns after cycle 5 * R.
C8_CycleOrder ==
    /\ [](/\ pc # "shuffle" => Len(shuffles) = num_shuffle
          /\ pc = "shuffle" => (cycles = <<>> /\ nclf = 0)
          /\ Len(cycles) <= 5 * num_shuffle
          /\ \A j \in 1..Len(cycles) :
                /\ cycles[j].train_percent = training_percents[((j - 1) \div num_shuffle) + 1]
                /\ cycles[j].shuf = ((j - 1) % num_shuffle) + 1
                /\ cycles[j].clf = j
          /\ \A j, k \in 1..Len(cycles) : cycles[j].clf = cycles[k].clf => j = k
          /\ pc = "done" => Len(cycles) = 5 * num_shuffle)
    /\ [][/\ pc # "shuffle" => shuffles' = shuffles
          /\ Len(cycles') \in {Len(cycles), Len(cycles) + 1}
          /\ (pc = "loop" /\ Len(cycles) = 5 * num_shuffle /\ fi > Len(training_percents))
                => pc' = "done"]_vars

C8_Witness ==
    /\ pc = "done"
    /\ num_shuffle = 2
    /\ Len(cycles) = 10
    /\ cycles[3] = [train_percent |-> 3, shuf |-> 1, clf |-> 3, result |-> 100]
    /\ cycles[10] = [train_percent |-> 9, shuf |-> 2, clf |-> 10, result |-> 0]

\* C9: after every split of a matrix of at least one row the test split is
\* not empty; at fraction 0.1 the train split is empty exactly when
\* num_nodes < 10; from 10 rows on both splits are non-empty at every fraction.
C9_SplitBoundaries ==
    pc = "fit" =>
        /\ num_nodes >= 1 => NRows(X_test) >= 1
        /\ training_percents[fi] = 1 =>
              ((training_size = 0 /\ NRows(X_train) = 0) <=> num_nodes < 10)
        /\ num_nodes >= 10 => (NRows(X_train) >= 1 /\ NRows(X_test) >= 1)

C9_Witness ==
    /\ pc = "fit"
    /\ num_nodes = 9
    /\ training_percents[fi] = 1
    /\ NRows(X_train) = 0
    /\ NRows(X_test) = 9

\* C10: with num_shuffle = 0 no cycle runs, no score is recorded, nothing
\* is raised and the mapping returned is empty; with num_shuffle >= 1 the
\* mapping returned is never empty.
C10_ZeroShuffles ==
    /\ num_shuffle = 0 =>
          /\ pc # "raised"
          /\ cycles = <<>>
          /\ nclf = 0
          /\ all_results = <<>>
          /\ pc = "done" => ret = <<>>
    /\ (num_shuffle >= 1 /\ pc = "done") => (ret # <<>> /\ Len(ret) >= 1)

C10_Witness ==
    /\ pc = "done"
    /\ num_shuffle = 0
    /\ num_nodes >= 1
    /\ ret = <<>>

\* C7: in every output row ranked with an oracle count 1 <= k <= num_classes
\* the marked classes are k classes none of which has a lower probability
\* than an unmarked class: the column marked for a ranked class is the
\* column of that class.
C7_TopKSet ==
    \A i \in RankedRows :
        (top_k_list[i] >= 1 /\ top_k_list[i] <= num_classes) =>
            /\ Cardinality(Marked(i)) = top_k_list[i]
            /\ \A c \in Marked(i) : \A d \in Classes \ Marked(i) : probs[i][d] <= probs[i][c]

C7_Witness ==
    /\ pc = "predicted"
    /\ NRows(all_labels) >= 1
    /\ top_k_list[0] = 2
    /\ probs[0][0] = 2 /\ probs[0][1] = 1 /\ probs[0][2] = 2
    /\ Marked(0) = {0, 2}

====
